---- MODULE Spec2Model ----
(***************************************************************************)
(* GAEngine (gaft/engine.py): the generational loop of run, the fitness    *)
(* registration decorators and the analysis-hook lifecycle.                *)
(*                                                                         *)
(* The engine's collaborators are not part of engine.py.  The population   *)
(* reductions (max, min, mean, best_indv) and the mpi helper (split_size,  *)
(* merge_seq) are modelled from their contracts; selection, crossover,     *)
(* mutation and the analysis hooks are environment: each call either       *)
(* returns (any individuals) or raises.                                    *)
(*                                                                         *)
(* Floats are modelled as integers counted in sixteenths (16 is 1.0).       *)
(***************************************************************************)
EXTENDS Integers, Sequences, FiniteSets

\* ------------------------------------------------------------------ bounds
MaxPop == 4          \* largest initial population
MaxGen == 2          \* largest ng passed to run
MaxHooks == 2        \* most analysis hooks registered
MaxProcs == 2        \* largest MPI worker group
MaxRuns == 1         \* run invocations per behaviour
MaxPlain == 1        \* fitness_register calls per behaviour of SpecHooks
MaxRegs == 3         \* decorator calls per behaviour of SpecScaling

\* ------------------------------------------------------- program constants
Ksi == 8             \* linear_scaling(ksi=0.5), in sixteenths
Ksi0 == 32           \* dynamic_linear_scaling(ksi0=2), in sixteenths
DecayDen == 2        \* dynamic_linear_scaling(r=1/2): r ** k = 1 / DecayDen ^ k
NotRunning == -1     \* current_generation outside the loop

Cands == {1, 2}                 \* the individuals
Intervals == {1, 2}             \* the hooks' intervals
RawFns == {"f_up", "f_nan"}     \* the user's fitness functions
Targets == {"max", "min"}

\* ------------------------------------------------------------ float values
\* A Python value a fitness function can return: a float, nan, or None.
Float(n) == [k |-> "float", v |-> n]
NaN == [k |-> "nan", v |-> 0]
NoneVal == [k |-> "none", v |-> 0]

Ok(val) == [exc |-> "none", val |-> val]
Raise(e) == [exc |-> e, val |-> NoneVal]

\* a - b on Python floats: TypeError on None, nan is contagious.
Sub(a, b) ==
  IF a.k = "none" \/ b.k = "none" THEN Raise("TypeError")
  ELSE IF a.k = "nan" \/ b.k = "nan" THEN Ok(NaN)
  ELSE Ok(Float(a.v - b.v))

\* a + n, n a float constant.
AddConst(a, n) ==
  IF a.k = "none" THEN Raise("TypeError")
  ELSE IF a.k = "nan" THEN Ok(NaN)
  ELSE Ok(Float(a.v + n))

\* ------------------------------------------------------- fitness functions
\* A function value: the user's raw function and the wrappers around it,
\* innermost first.  NoFn is Python's None.
NoFn == [raw |-> "None", layers |-> <<>>]
Raw(name) == [raw |-> name, layers |-> <<>>]
Wrap(fn, layer) == [raw |-> fn.raw, layers |-> Append(fn.layers, layer)]

\* The user's functions (environment): f_up is valid on every individual,
\* f_nan on none, f_part on individual 1 alone.
RawValue(name, c) ==
  IF name = "f_up" THEN Float(32 * c)
  ELSE IF name = "f_part" /\ c = 1 THEN Float(32)
  ELSE NaN

CheckLayer == [kind |-> "check", target |-> "-"]
ScaleLayer(kind, target) == [kind |-> kind, target |-> target]

\* What the engine's fields are when a wrapped function is called.
Ctx(fmax_, fmin_, cg_) == [fmax |-> fmax_, fmin |-> fmin_, cg |-> cg_]

\* ksi0 * (r ** k)
DynTerm(k) == Ksi0 \div (DecayDen ^ k)

\* _fn_with_fitness_check: a result that is no float, or nan, is a ValueError.
FnWithFitnessCheck(f) ==
  IF f.k # "float" THEN Raise("ValueError") ELSE Ok(f)

\* Mutant of FnWithLinearScaling: the statistics are exchanged.
FnWithLinearScalingExchanged(f, target, ctx) ==
  IF target = "max" THEN
    LET d == Sub(f, ctx.fmax) IN
      IF d.exc # "none" THEN d ELSE AddConst(d.val, Ksi)
  ELSE IF target = "min" THEN
    LET d == Sub(ctx.fmin, f) IN
      IF d.exc # "none" THEN d ELSE AddConst(d.val, Ksi)
  ELSE Raise("ValueError")

\* _fn_with_linear_scaling
FnWithLinearScaling(f, target, ctx) ==
  IF target = "max" THEN
    LET d == Sub(f, ctx.fmin) IN
      IF d.exc # "none" THEN d ELSE AddConst(d.val, Ksi)
  ELSE IF target = "min" THEN
    LET d == Sub(ctx.fmax, f) IN
      IF d.exc # "none" THEN d ELSE AddConst(d.val, Ksi)
  ELSE Raise("ValueError")

\* Mutant of Exponent: the generations are counted from zero.
ExponentFromZero(cg) == cg

\* k = self.current_generation + 1
Exponent(cg) == cg + 1

\* _fn_with_dynamic_linear_scaling
FnWithDynamicLinearScaling(f, target, ctx) ==
  LET k == Exponent(ctx.cg) IN
  IF target = "max" THEN
    LET d == Sub(f, ctx.fmin) IN
      IF d.exc # "none" THEN d ELSE AddConst(d.val, DynTerm(k))
  ELSE IF target = "min" THEN
    LET d == Sub(ctx.fmax, f) IN
      IF d.exc # "none" THEN d ELSE AddConst(d.val, DynTerm(k))
  ELSE Raise("ValueError")

\* Calling the function with the first n wrappers applied, on individual c.
RECURSIVE CallLayers(_, _, _, _)
CallLayers(fn, n, c, ctx) ==
  IF fn = NoFn THEN Raise("TypeError")
  ELSE IF n = 0 THEN Ok(RawValue(fn.raw, c))
  ELSE
    LET inner == CallLayers(fn, n - 1, c, ctx)
        layer == fn.layers[n]
    IN IF inner.exc # "none" THEN inner
       ELSE IF layer.kind = "check" THEN FnWithFitnessCheck(inner.val)
       ELSE IF layer.kind = "linear"
         THEN FnWithLinearScaling(inner.val, layer.target, ctx)
       ELSE FnWithDynamicLinearScaling(inner.val, layer.target, ctx)

\* fn(indv)
Call(fn, c, ctx) == CallLayers(fn, Len(fn.layers), c, ctx)

IsScaled(fn) == \E n \in 1..Len(fn.layers) : fn.layers[n].kind # "check"

\* ------------------------------------------------------------- population
\* [fitness(indv) for indv in individuals]: the first exception raised, if any.
AllFits(pop, fn, ctx) == [n \in 1..Len(pop) |-> Call(fn, pop[n], ctx)]

FirstExc(fits) ==
  IF \E n \in 1..Len(fits) : fits[n].exc # "none"
  THEN fits[CHOOSE n \in 1..Len(fits) :
              /\ fits[n].exc # "none"
              /\ \A m \in 1..(n - 1) : fits[m].exc = "none"].exc
  ELSE "none"

\* Python's a > b on floats: False when either is nan.
Gt(a, b) == a.k = "float" /\ b.k = "float" /\ a.v > b.v

\* max(values): keeps the first, replaces it by a strictly greater one.
RECURSIVE PyMax(_, _)
PyMax(vals, n) ==
  IF n = 1 THEN vals[1]
  ELSE LET cur == PyMax(vals, n - 1) IN IF Gt(vals[n], cur) THEN vals[n] ELSE cur

RECURSIVE PyMin(_, _)
PyMin(vals, n) ==
  IF n = 1 THEN vals[1]
  ELSE LET cur == PyMin(vals, n - 1) IN IF Gt(cur, vals[n]) THEN vals[n] ELSE cur

RECURSIVE SumV(_, _)
SumV(vals, n) == IF n = 0 THEN 0 ELSE SumV(vals, n - 1) + vals[n].v

Vals(fits) == [n \in 1..Len(fits) |-> fits[n].val]

\* population.max(fn)
PopMax(pop, fn, ctx) ==
  LET fits == AllFits(pop, fn, ctx) IN
  IF FirstExc(fits) # "none" THEN Raise(FirstExc(fits))
  ELSE IF Len(pop) = 0 THEN Raise("ValueError")
  ELSE IF Len(pop) > 1 /\ \E n \in 1..Len(pop) : fits[n].val.k = "none"
    THEN Raise("TypeError")
  ELSE Ok(PyMax(Vals(fits), Len(pop)))

\* population.min(fn)
PopMin(pop, fn, ctx) ==
  LET fits == AllFits(pop, fn, ctx) IN
  IF FirstExc(fits) # "none" THEN Raise(FirstExc(fits))
  ELSE IF Len(pop) = 0 THEN Raise("ValueError")
  ELSE IF Len(pop) > 1 /\ \E n \in 1..Len(pop) : fits[n].val.k = "none"
    THEN Raise("TypeError")
  ELSE Ok(PyMin(Vals(fits), Len(pop)))

\* population.mean(fn)
PopMean(pop, fn, ctx) ==
  LET fits == AllFits(pop, fn, ctx) IN
  IF FirstExc(fits) # "none" THEN Raise(FirstExc(fits))
  ELSE IF \E n \in 1..Len(pop) : fits[n].val.k = "none" THEN Raise("TypeError")
  ELSE IF Len(pop) = 0 \/ \E n \in 1..Len(pop) : fits[n].val.k = "nan" THEN Ok(NaN)
  ELSE Ok(Float(SumV(Vals(fits), Len(pop)) \div Len(pop)))

\* population.best_indv(fn): the first individual of greatest fitness.
BestIndv(pop, fn, ctx) ==
  LET fits == AllFits(pop, fn, ctx) IN
  IF FirstExc(fits) # "none" THEN [exc |-> FirstExc(fits), indv |-> 0]
  ELSE IF Len(pop) = 0 THEN [exc |-> "ValueError", indv |-> 0]
  ELSE LET best == PyMax(Vals(fits), Len(pop))
           at == CHOOSE n \in 1..Len(pop) :
                   /\ fits[n].val = best
                   /\ \A m \in 1..(n - 1) : fits[m].val # best
       IN [exc |-> "none", indv |-> pop[at]]

\* ---------------------------------------------------------------- mpiutil
\* mpi.split_size(n) on worker rank of size workers.
SplitSize(n, size, rank) == (n \div size) + (IF rank < n % size THEN 1 ELSE 0)

\* mpi.merge_seq(local): every worker's sequence, in rank order.
RECURSIVE MergeSeq(_, _)
MergeSeq(locals, size) ==
  IF size = 0 THEN <<>> ELSE MergeSeq(locals, size - 1) \o locals[size - 1]

\* ------------------------------------------------------------------ state
VARIABLES
  population,          \* self.population.individuals
  fitness,             \* self.fitness
  ori_fitness,         \* self.ori_fitness
  fmax, fmin, fmean,   \* self.fmax, self.fmin, self.fmean
  current_generation,  \* self.current_generation
  analysis,            \* self.analysis: the hooks' intervals, in registration order
  pc,                  \* where run is: idle, setup, loop, repro, hooks, finally, finalize
  ng,                  \* run's argument
  g,                   \* the loop variable of run
  idx,                 \* position of the hook loop run is in
  best_indv,           \* run's local best_indv
  active_fits,         \* the active fitness values best_indv computed for the
                       \* generation under reproduction, empty outside of it
  local_indvs,         \* every worker's local_indvs, by rank
  exc,                 \* the exception the loop raised, "none" if none
  outcome,             \* how the last run ended: "ok", or the exception raised
  calls,               \* the hook methods the current run has invoked, in order
  size0,               \* the population's size when run was called
  gen_population,      \* the population as the last completed generation of
                       \* the run left it, the initial one if none completed
  nruns,               \* run invocations so far
  nregs,               \* decorator calls so far
  ctor_fitness,        \* the fitness argument the constructor was given
  pending,             \* the function the last scaling decorator returned
  last_reg,            \* the last decorator call: its name and the function given
  nprocs, rank,        \* mpi.size, mpi.rank
  peer_population      \* self.population.individuals on the workers of other rank

engine == <<population, fitness, ori_fitness, fmax, fmin, fmean,
            current_generation, analysis>>
control == <<pc, ng, g, idx, best_indv, active_fits, local_indvs, exc>>
history == <<outcome, calls, size0, gen_population, nruns, nregs, ctor_fitness,
            pending, last_reg>>
world == <<nprocs, rank, peer_population>>
vars == <<engine, control, history, world>>

Populations(sizes) == UNION {[1..n -> Cands] : n \in sizes}
HookLists(most) == UNION {[1..n -> Intervals] : n \in 0..most}
NoLocals == [r \in 0..(nprocs - 1) |-> <<>>]

\* GAEngine.__init__: the fields after construction.
GAEngineInit(pop, fit, hooks) ==
  LET assigned == [population |-> pop, fitness |-> fit, analysis |-> hooks,
                   fmax |-> NoneVal, fmin |-> NoneVal, fmean |-> NoneVal]
      defaults == [assigned EXCEPT !.fitness = NoFn]
  IN [population |-> defaults.population,
      fitness |-> defaults.fitness,
      ori_fitness |-> NoFn,
      fmax |-> defaults.fmax, fmin |-> defaults.fmin, fmean |-> defaults.fmean,
      current_generation |-> NotRunning,
      analysis |-> defaults.analysis]

\* The engine as constructed, in a group of at most procs workers.
InitWith(pops, hooklists, procs, fits) ==
  /\ nprocs \in 1..procs
  /\ rank \in 0..(nprocs - 1)
  /\ ctor_fitness \in fits
  /\ \E pop \in pops, hooks \in hooklists :
       LET e == GAEngineInit(pop, ctor_fitness, hooks) IN
         /\ population = e.population
         /\ fitness = e.fitness
         /\ ori_fitness = e.ori_fitness
         /\ fmax = e.fmax /\ fmin = e.fmin /\ fmean = e.fmean
         /\ current_generation = e.current_generation
         /\ analysis = e.analysis
  /\ peer_population = population
  /\ pc = "idle" /\ ng = 0 /\ g = 0 /\ idx = 1 /\ best_indv = 0
  /\ active_fits = <<>>
  /\ local_indvs = NoLocals
  /\ exc = "none" /\ outcome = "none" /\ calls = <<>>
  /\ size0 = Len(population)
  /\ gen_population = population
  /\ nruns = 0 /\ nregs = 0 /\ pending = NoFn
  /\ last_reg = [call |-> "none", fn |-> NoFn]

\* ----------------------------------------------------------- registration
\* What the user can hand to a decorator: a raw function, or the function
\* the last scaling decorator returned.
RawFunctions == {Raw(f) : f \in RawFns}
PartialFunctions == {Raw("f_part")}
Registrable == RawFunctions \cup (IF pending = NoFn THEN {} ELSE {pending})

\* fitness_register(fn)
FitnessRegister(fn) ==
  /\ pc = "idle"
  /\ fitness' = Wrap(fn, CheckLayer)
  /\ ori_fitness' = IF ori_fitness = NoFn THEN Wrap(fn, CheckLayer) ELSE ori_fitness
  /\ nregs' = nregs + 1
  /\ last_reg' = [call |-> "fitness_register", fn |-> fn]
  /\ UNCHANGED <<population, fmax, fmin, fmean, current_generation, analysis>>
  /\ UNCHANGED <<control, world, outcome, calls, size0, gen_population, nruns,
                 ctor_fitness, pending>>

\* linear_scaling(target)(fn)
LinearScaling(target, fn) ==
  /\ pc = "idle"
  /\ ori_fitness' = fn
  /\ pending' = Wrap(fn, ScaleLayer("linear", target))
  /\ nregs' = nregs + 1
  /\ last_reg' = [call |-> "linear_scaling", fn |-> fn]
  /\ UNCHANGED <<population, fitness, fmax, fmin, fmean, current_generation, analysis>>
  /\ UNCHANGED <<control, world, outcome, calls, size0, gen_population, nruns,
                 ctor_fitness>>

\* dynamic_linear_scaling(target)(fn)
DynamicLinearScaling(target, fn) ==
  /\ pc = "idle"
  /\ ori_fitness' = fn
  /\ pending' = Wrap(fn, ScaleLayer("dynamic", target))
  /\ nregs' = nregs + 1
  /\ last_reg' = [call |-> "dynamic_linear_scaling", fn |-> fn]
  /\ UNCHANGED <<population, fitness, fmax, fmin, fmean, current_generation, analysis>>
  /\ UNCHANGED <<control, world, outcome, calls, size0, gen_population, nruns,
                 ctor_fitness>>

\* analysis_register(analysis_cls), the class's interval being k
AnalysisRegister(k) ==
  /\ pc = "idle"
  /\ analysis' = Append(analysis, k)
  /\ UNCHANGED <<population, fitness, ori_fitness, fmax, fmin, fmean, current_generation>>
  /\ UNCHANGED <<control, history, world>>

\* -------------------------------------------------------------------- run
\* self.fmax, self.fmin, self.fmean = max, min, mean of ori_fitness, assigned
\* one after the other: a scaled ori_fitness reads the fields as they are
\* when it is called, and an exception leaves the earlier ones assigned.
Refresh(pop, ori, fmax0, fmin0, fmean0, cg) ==
  LET m1 == PopMax(pop, ori, Ctx(fmax0, fmin0, cg)) IN
  IF m1.exc # "none"
  THEN [exc |-> m1.exc, fmax |-> fmax0, fmin |-> fmin0, fmean |-> fmean0]
  ELSE LET m2 == PopMin(pop, ori, Ctx(m1.val, fmin0, cg)) IN
    IF m2.exc # "none"
    THEN [exc |-> m2.exc, fmax |-> m1.val, fmin |-> fmin0, fmean |-> fmean0]
    ELSE LET m3 == PopMean(pop, ori, Ctx(m1.val, m2.val, cg)) IN
      IF m3.exc # "none"
      THEN [exc |-> m3.exc, fmax |-> m1.val, fmin |-> m2.val, fmean |-> fmean0]
      ELSE [exc |-> "none", fmax |-> m1.val, fmin |-> m2.val, fmean |-> m3.val]

Event(m, h, gen) == [m |-> m, h |-> h, g |-> gen, cg |-> current_generation]

\* Mutant of LocalSize: the half is rounded up.
LocalSizeRoundedUp(r) == SplitSize((Len(population) + 1) \div 2, nprocs, r)

\* Mutant of LocalSize: the units are not split, every worker takes them all.
LocalSizeUnsplit(r) == Len(population) \div 2

\* mpi.split_size(self.population.size // 2) on worker r
LocalSize(r) == SplitSize(Len(population) \div 2, nprocs, r)

\* Mutant of MissingFitness: the check is left out.
MissingFitnessUnchecked == FALSE

\* if self.fitness is None
MissingFitness == fitness = NoFn

\* run(ng=n), up to the first setup: the fitness check and the statistics.
RunEnter(n) ==
  /\ pc = "idle"
  /\ nruns' = nruns + 1
  /\ ng' = n /\ g' = 0 /\ idx' = 1 /\ exc' = "none"
  /\ calls' = <<>>
  /\ size0' = Len(population)
  /\ gen_population' = population
  /\ IF MissingFitness
     THEN /\ outcome' = "AttributeError"
          /\ pc' = "idle"
          /\ UNCHANGED <<fmax, fmin, fmean>>
     ELSE LET st == Refresh(population, ori_fitness, fmax, fmin, fmean,
                            current_generation) IN
          /\ fmax' = st.fmax /\ fmin' = st.fmin /\ fmean' = st.fmean
          /\ IF st.exc # "none"
             THEN outcome' = st.exc /\ pc' = "idle"
             ELSE /\ outcome' = "none"
                  /\ pc' = IF Len(analysis) = 0 THEN "loop" ELSE "setup"
  /\ UNCHANGED <<population, fitness, ori_fitness, current_generation, analysis>>
  /\ UNCHANGED <<best_indv, active_fits, local_indvs, world>>
  /\ UNCHANGED <<nregs, ctor_fitness, pending, last_reg>>

\* a.setup(ng=ng, engine=self) of the hook at idx: it returns, or it raises
\* and run raises with it (the call is outside the try block).
Setup ==
  /\ pc = "setup"
  /\ calls' = Append(calls, Event("setup", idx, NotRunning))
  /\ \/ /\ idx' = IF idx = Len(analysis) THEN 1 ELSE idx + 1
        /\ pc' = IF idx = Len(analysis) THEN "loop" ELSE "setup"
        /\ UNCHANGED outcome
     \/ /\ pc' = "idle" /\ outcome' = "SetupError"
        /\ UNCHANGED idx
  /\ UNCHANGED <<engine, world, ng, g, best_indv, active_fits, local_indvs, exc>>
  /\ UNCHANGED <<size0, gen_population, nruns, nregs, ctor_fitness, pending, last_reg>>

\* self.fmax, self.fmin, self.current_generation as a wrapped function reads
\* them when it is called, the counter being cg.
CallContext(cg) == Ctx(fmax, fmin, cg)

\* Mutant of LoopDone: the loop runs once more.
LoopDoneLate == g > ng

\* for g in range(ng): the range is exhausted.
LoopDone == g >= ng

\* for g in range(ng): the counter, the best individual, the local size.
GenBegin ==
  /\ pc = "loop"
  /\ IF LoopDone
     THEN /\ pc' = "finally"
          /\ UNCHANGED <<current_generation, best_indv, active_fits, local_indvs, exc>>
     ELSE LET b == BestIndv(population, fitness, CallContext(g)) IN
          /\ current_generation' = g
          /\ IF b.exc # "none"
             THEN /\ exc' = b.exc /\ pc' = "finally"
                  /\ UNCHANGED <<best_indv, active_fits, local_indvs>>
             ELSE /\ best_indv' = b.indv
                  /\ active_fits' = Vals(AllFits(population, fitness, CallContext(g)))
                  /\ local_indvs' = NoLocals
                  /\ pc' = "repro"
                  /\ UNCHANGED exc
  /\ UNCHANGED <<population, fitness, ori_fitness, fmax, fmin, fmean, analysis>>
  /\ UNCHANGED <<ng, g, idx, history, world>>

\* One reproduction unit of this worker: select, cross, mutate, extend; any of
\* the three operators may raise.
Reproduce ==
  /\ pc = "repro"
  /\ Len(local_indvs[rank]) < 2 * LocalSize(rank)
  /\ \/ \E c1 \in Cands, c2 \in Cands :
          /\ local_indvs' = [local_indvs EXCEPT ![rank] = @ \o <<c1, c2>>]
          /\ UNCHANGED <<pc, exc, active_fits>>
     \/ \E e \in {"SelectionError", "CrossoverError", "MutationError"} :
          /\ exc' = e /\ pc' = "finally"
          /\ active_fits' = <<>>
          /\ UNCHANGED local_indvs
  /\ UNCHANGED <<engine, ng, g, idx, best_indv, history, world>>

\* One reproduction unit of another worker of the group.
RemoteReproduce(r) ==
  /\ pc = "repro"
  /\ r # rank
  /\ Len(local_indvs[r]) < 2 * LocalSize(r)
  /\ \E c1 \in Cands, c2 \in Cands :
       local_indvs' = [local_indvs EXCEPT ![r] = @ \o <<c1, c2>>]
  /\ UNCHANGED <<engine, pc, ng, g, idx, best_indv, active_fits, exc, history, world>>

\* Mutant of Retain: the best individual is not put back.
RetainNothing(indvs, best) == indvs

\* Mutant of Retain: the best individual goes to the last slot.
RetainLast(indvs, best) == [indvs EXCEPT ![Len(indvs)] = best]

\* indvs[0] = best_indv
Retain(indvs, best) == [indvs EXCEPT ![1] = best]

\* What follows the hook at position i - 1 in generation g, the population
\* being pop.
AfterStep(i, pop) ==
  IF i > Len(analysis)
  THEN pc' = "loop" /\ g' = g + 1 /\ idx' = 1 /\ gen_population' = pop
  ELSE pc' = "hooks" /\ g' = g /\ idx' = i /\ UNCHANGED gen_population

\* The collective of merge_seq: every worker has reached it, its loop over
\* range(local_size) done.
Contributed ==
  \A r \in 0..(nprocs - 1) : Len(local_indvs[r]) = 2 * LocalSize(r)

\* best_indv on a worker of other rank: the same statement on its population.
PeerBest ==
  BestIndv(peer_population, fitness, CallContext(current_generation)).indv

\* merge_seq once every worker has its children, the retained best, the new
\* population and its statistics.
Merge ==
  /\ pc = "repro"
  /\ Contributed
  /\ active_fits' = <<>>
  /\ LET indvs == MergeSeq(local_indvs, nprocs) IN
     IF Len(indvs) = 0
     THEN /\ exc' = "IndexError" /\ pc' = "finally"
          /\ UNCHANGED <<population, peer_population, fmax, fmin, fmean>>
          /\ UNCHANGED <<g, idx, gen_population>>
     ELSE LET st == Refresh(Retain(indvs, best_indv), ori_fitness, fmax, fmin,
                            fmean, current_generation) IN
          /\ population' = Retain(indvs, best_indv)
          /\ peer_population' = Retain(indvs, PeerBest)
          /\ fmax' = st.fmax /\ fmin' = st.fmin /\ fmean' = st.fmean
          /\ IF st.exc # "none"
             THEN /\ exc' = st.exc /\ pc' = "finally"
                  /\ UNCHANGED <<g, idx, gen_population>>
             ELSE AfterStep(1, Retain(indvs, best_indv)) /\ UNCHANGED exc
  /\ UNCHANGED <<fitness, ori_fitness, current_generation, analysis>>
  /\ UNCHANGED <<ng, best_indv, local_indvs, nprocs, rank>>
  /\ UNCHANGED <<outcome, calls, size0, nruns, nregs, ctor_fitness, pending, last_reg>>

\* Mutant of Due: generations are counted from one.
DueFromOne(gen, interval) == (gen + 1) % interval = 0

\* g % a.interval == 0
Due(gen, interval) == gen % interval = 0

\* if g % a.interval == 0: a.register_step(g=g, ...), for the hook at idx.
RegisterStep ==
  /\ pc = "hooks"
  /\ IF Due(g, analysis[idx])
     THEN /\ calls' = Append(calls, Event("register_step", idx, g))
          /\ \/ AfterStep(idx + 1, population) /\ UNCHANGED exc
             \/ /\ exc' = "StepError" /\ pc' = "finally"
                /\ UNCHANGED <<g, idx, gen_population>>
     ELSE AfterStep(idx + 1, population) /\ UNCHANGED <<calls, exc>>
  /\ UNCHANGED <<engine, world, ng, best_indv, active_fits, local_indvs>>
  /\ UNCHANGED <<outcome, size0, nruns, nregs, ctor_fitness, pending, last_reg>>

\* How run ends once nothing is left to finalize.
Return(e) == pc' = "idle" /\ outcome' = (IF e = "none" THEN "ok" ELSE e)

\* Mutant of Finally: the hooks are finalized after the loop, not in a
\* finally block, so an exception skips them.
FinallyAfterLoop ==
  /\ pc = "finally"
  /\ current_generation' = NotRunning
  /\ idx' = 1
  /\ IF Len(analysis) = 0 \/ exc # "none"
     THEN Return(exc) ELSE pc' = "finalize" /\ UNCHANGED outcome
  /\ UNCHANGED <<population, fitness, ori_fitness, fmax, fmin, fmean, analysis>>
  /\ UNCHANGED <<ng, g, best_indv, active_fits, local_indvs, exc, world>>
  /\ UNCHANGED <<calls, size0, gen_population, nruns, nregs, ctor_fitness,
                 pending, last_reg>>

\* Mutant of Finally: the generation counter is not recovered.
FinallyNoRecover ==
  /\ pc = "finally"
  /\ idx' = 1
  /\ IF Len(analysis) = 0 THEN Return(exc) ELSE pc' = "finalize" /\ UNCHANGED outcome
  /\ UNCHANGED <<engine, ng, g, best_indv, active_fits, local_indvs, exc, world>>
  /\ UNCHANGED <<calls, size0, gen_population, nruns, nregs, ctor_fitness,
                 pending, last_reg>>

\* except: log and re-raise; finally: self.current_generation = -1.
Finally ==
  /\ pc = "finally"
  /\ current_generation' = NotRunning
  /\ idx' = 1
  /\ IF Len(analysis) = 0 THEN Return(exc) ELSE pc' = "finalize" /\ UNCHANGED outcome
  /\ UNCHANGED <<population, fitness, ori_fitness, fmax, fmin, fmean, analysis>>
  /\ UNCHANGED <<ng, g, best_indv, active_fits, local_indvs, exc, world>>
  /\ UNCHANGED <<calls, size0, gen_population, nruns, nregs, ctor_fitness,
                 pending, last_reg>>

\* a.finalize(population=..., engine=self) of the hook at idx: it returns, or
\* it raises and run raises with it, leaving the later hooks alone.
Finalize ==
  /\ pc = "finalize"
  /\ calls' = Append(calls, Event("finalize", idx, NotRunning))
  /\ \/ /\ idx' = idx + 1
        /\ IF idx = Len(analysis) THEN Return(exc) ELSE UNCHANGED <<pc, outcome>>
     \/ /\ pc' = "idle" /\ outcome' = "FinalizeError"
        /\ UNCHANGED idx
  /\ UNCHANGED <<engine, world, ng, g, best_indv, active_fits, local_indvs, exc>>
  /\ UNCHANGED <<size0, gen_population, nruns, nregs, ctor_fitness, pending, last_reg>>

\* The steps of run after its entry, on one worker.
RunStep == GenBegin \/ Reproduce \/ Merge \/ Finally

\* The hook calls of run.
HookStep == Setup \/ RegisterStep \/ Finalize

\* Spec: engines of every population, alone or in a worker group, without
\* hooks; the user registers a plain fitness function when the engine has
\* none.
Init ==
  InitWith(Populations(1..MaxPop), {<<>>}, MaxProcs, {NoFn})

Next ==
  \/ \E fn \in RawFunctions :
       fitness = NoFn /\ nruns < MaxRuns /\ FitnessRegister(fn)
  \/ \E n \in 0..MaxGen : nruns < MaxRuns /\ RunEnter(n)
  \/ RunStep
  \/ \E r \in 0..(nprocs - 1) : RemoteReproduce(r)

Spec == Init /\ [][Next]_vars

\* SpecHooks: one worker and one population; the hooks are given to the
\* constructor or registered afterwards; the user gives a fitness function
\* to the constructor or registers plain fitness functions.
InitHooks ==
  InitWith({<<1, 2>>}, HookLists(MaxHooks), 1, {NoFn, Raw("f_up")})

NextHooks ==
  \/ \E fn \in RawFunctions :
       nregs < MaxPlain /\ nruns < MaxRuns /\ FitnessRegister(fn)
  \/ \E k \in Intervals :
       Len(analysis) < MaxHooks /\ nruns < MaxRuns /\ AnalysisRegister(k)
  \/ \E n \in 0..MaxGen : nruns < MaxRuns /\ RunEnter(n)
  \/ RunStep
  \/ HookStep

SpecHooks == InitHooks /\ [][NextHooks]_vars

\* SpecScaling: one worker without hooks; the user stacks the scaling
\* decorators and fitness_register in any order.
InitScaling ==
  InitWith(Populations({2}), {<<>>}, 1, {NoFn})

NextScaling ==
  \/ \E fn \in Registrable :
       nregs < MaxRegs /\ nruns < MaxRuns /\ FitnessRegister(fn)
  \/ \E t \in Targets, fn \in Registrable :
       nregs < MaxRegs /\ nruns < MaxRuns /\ LinearScaling(t, fn)
  \/ \E t \in Targets, fn \in Registrable :
       nregs < MaxRegs /\ nruns < MaxRuns /\ DynamicLinearScaling(t, fn)
  \/ \E n \in 1..MaxGen : nruns < MaxRuns /\ RunEnter(n)
  \/ RunStep

SpecScaling == InitScaling /\ [][NextScaling]_vars

\* SpecPartial: one worker and a population of individuals the fitness
\* function is valid on, while it is not on every child the operators return.
InitPartial ==
  InitWith({<<1, 1>>}, HookLists(1), 1, {NoFn})

NextPartial ==
  \/ \E fn \in PartialFunctions :
       fitness = NoFn /\ nruns < MaxRuns /\ FitnessRegister(fn)
  \/ \E n \in 0..MaxGen : nruns < MaxRuns /\ RunEnter(n)
  \/ RunStep
  \/ HookStep

SpecPartial == InitPartial /\ [][NextPartial]_vars

\* SpecFair: the steps of Spec on populations of one or two individuals, with
\* workers that do not hang: this worker takes the next step of its run,
\* the others their next reproduction unit.
InitFair ==
  InitWith(Populations({1, 2}), {<<>>}, MaxProcs, {NoFn})

SpecFair ==
  /\ InitFair /\ [][Next]_vars
  /\ WF_vars(RunStep)
  /\ WF_vars(\E r \in 0..(nprocs - 1) : RemoteReproduce(r))

\* ----------------------------------------------------------------- claims
CountCalls(cs, m, h) ==
  Cardinality({n \in DOMAIN cs : cs[n].m = m /\ cs[n].h = h})

CountSteps(cs, h, gen) ==
  Cardinality({n \in DOMAIN cs :
                 cs[n].m = "register_step" /\ cs[n].h = h /\ cs[n].g = gen})

IsFinalize(e) == e.m = "finalize"
Finalized(cs) == SelectSeq(cs, IsFinalize)
InOrder(cs) == \A n \in DOMAIN cs : cs[n].h = n

\* This step ends an invocation of run: it returns or raises.
RunEnded == pc' = "idle" /\ (pc # "idle" \/ nruns' # nruns)

\* The step is the entry of run.
RunCalled == pc = "idle" /\ nruns' = nruns + 1

OperatorErrors == {"SelectionError", "CrossoverError", "MutationError"}

C2_Elitism ==
  [][pc = "repro" /\ pc' \in {"loop", "hooks"} =>
       /\ population'[1] = best_indv
       /\ best_indv = BestIndv(population, fitness,
                               Ctx(fmax, fmin, current_generation)).indv]_vars

\* A generation under min-scaled fitness has kept the individual of least
\* raw fitness at index 0.
C2_Witness ==
  /\ pc = "loop" /\ g = 1
  /\ IsScaled(fitness) /\ fitness.layers[1].target = "min"
  /\ best_indv = 1 /\ population[1] = 1

GenerationDone ==
  \/ pc = "hooks"
  \/ pc \in {"loop", "repro", "finally", "finalize"} /\ g >= 1

\* C3 as stated: during and after run the population has the size it had
\* when run was called.
C3_SizeKept == Len(population) = size0

\* C3 amended: the population a generation installs has 2 * (size // 2)
\* individuals, size being the number when run was called: the same number
\* when it is even, one less when it is odd.
C3_SizeHalvedDoubled ==
  /\ Len(population) \in {size0, 2 * (size0 \div 2)}
  /\ GenerationDone => Len(population) = 2 * (size0 \div 2)
  /\ size0 % 2 = 0 => Len(population) = size0

\* Two generations have run on a population that had three individuals.
C3_Witness ==
  /\ pc = "loop" /\ g = 2
  /\ size0 = 3 /\ Len(population) = 2

\* C4: in a run, register_step of a hook of interval k is invoked once in
\* each generation g of the run with g mod k = 0 and in no other, and every
\* hook's setup is invoked once, before any register_step.
C4_HookCadence ==
  pc # "idle" =>
    LET L == Len(analysis) IN
    /\ \A h \in 1..L : CountCalls(calls, "setup", h) <= 1
    /\ \A n \in DOMAIN calls : calls[n].m = "register_step" =>
         /\ calls[n].g \in 0..(ng - 1)
         /\ calls[n].g % analysis[calls[n].h] = 0
         /\ n > L
    /\ pc # "setup" =>
         /\ \A h \in 1..L : calls[h].m = "setup" /\ calls[h].h = h
         /\ \A h \in 1..L : CountCalls(calls, "setup", h) = 1
         /\ \A h \in 1..L, gen \in 0..(ng - 1) :
              /\ gen < g =>
                   CountSteps(calls, h, gen) = IF gen % analysis[h] = 0 THEN 1 ELSE 0
              /\ gen > g => CountSteps(calls, h, gen) = 0
              /\ CountSteps(calls, h, gen) <= 1

\* A run of two generations has ended its loop with a hook of interval 2
\* and one of interval 1.
C4_Witness ==
  /\ pc = "finally" /\ exc = "none" /\ ng = 2 /\ g = 2
  /\ analysis = <<2, 1>>
  /\ CountSteps(calls, 1, 1) = 0 /\ CountSteps(calls, 2, 1) = 1

\* C5 as stated: when run ends after an operator raised in generation g, it
\* raises that exception, no later generation has run, current_generation is
\* -1 and every hook's finalize has been invoked exactly once.
C5_FailurePropagation ==
  [][RunEnded /\ exc \in OperatorErrors =>
       /\ outcome' = exc
       /\ g' = g
       /\ \A n \in DOMAIN calls' : calls'[n].m = "register_step" => calls'[n].g < g
       /\ current_generation' = NotRunning
       /\ \A h \in 1..Len(analysis) : CountCalls(calls', "finalize", h) = 1]_vars

\* C6 as stated: after any decorator call, ori_fitness is (the validated
\* wrapper of) the raw function of the most recent registration, and
\* registering a scaled function makes it the active fitness.
C6_OriIsLatestRaw ==
  last_reg.call # "none" =>
    /\ ori_fitness.raw = last_reg.fn.raw
    /\ last_reg.call = "fitness_register" => fitness = Wrap(last_reg.fn, CheckLayer)

\* C7 as stated: the function the statistics are computed with is never a
\* scaled one.
C7_OriNeverScaled == ~IsScaled(ori_fitness)

\* C8 as stated: a fitness function given to the constructor is the engine's
\* fitness function, so that run does not raise for want of one.
C8_ConstructorFitness ==
  ctor_fitness # NoFn /\ nregs = 0 /\ nruns > 0 =>
    /\ fitness = ctor_fitness
    /\ outcome # "AttributeError"

\* C9: run without a fitness function raises the configuration error and
\* changes nothing: not the statistics, the counter or the population, and
\* no method of a hook is invoked.
C9_NoFitnessNoEffect ==
  [][RunCalled /\ fitness = NoFn =>
       /\ pc' = "idle" /\ outcome' = "AttributeError"
       /\ UNCHANGED <<population, fmax, fmin, fmean, current_generation>>
       /\ calls' = <<>>]_vars

\* run has raised the configuration error on an engine with hooks.
C9_Witness ==
  /\ pc = "idle" /\ outcome = "AttributeError"
  /\ fitness = NoFn /\ Len(analysis) > 0 /\ calls = <<>>

\* C10: current_generation is -1 outside the loop of run (idle, during the
\* setups, during the finalizes), it is g with 0 <= g < ng while generation g
\* is executing, and it is never anything else.
C10_GenerationCounter ==
  /\ pc \in {"idle", "setup", "finalize"} => current_generation = NotRunning
  /\ pc \in {"repro", "hooks"} =>
       current_generation = g /\ 0 <= g /\ g < ng
  /\ pc = "loop" => current_generation = (IF g = 0 THEN NotRunning ELSE g - 1)
  /\ current_generation \in {NotRunning} \cup 0..(ng - 1)

\* The second generation of a run is executing.
C10_Witness ==
  /\ pc = "repro" /\ g = 1 /\ current_generation = 1

\* fmax, fmin and fmean are the max, min and mean of the original fitness
\* over the population as it is.
Fresh ==
  LET st == Refresh(population, ori_fitness, fmax, fmin, fmean,
                    current_generation)
  IN /\ st.exc = "none"
     /\ fmax = st.fmax /\ fmin = st.fmin /\ fmean = st.fmean

\* C11 as stated: wherever run invokes a method of a hook (setup,
\* register_step, finalize) or a scaling function (best capture, selection),
\* fmax, fmin and fmean are the max, min and mean of the original fitness
\* over the population's current individuals.
C11_StatisticsFresh ==
  /\ pc \in {"setup", "hooks", "finalize"} => Fresh
  /\ pc = "loop" /\ g < ng /\ IsScaled(fitness) => Fresh
  /\ pc = "repro" /\ IsScaled(fitness) => Fresh

\* C12 as stated: when run has raised, the population is as the last
\* completed generation of the run left it, or the initial one if none
\* completed.
C12_FailureKeepsCompleted ==
  pc = "idle" /\ nruns > 0 /\ outcome \notin {"none", "ok"} =>
    population = gen_population

\* The function underneath fn returns nan or no float on an individual of pop.
Invalid(fn, pop) ==
  \E n \in 1..Len(pop) : RawValue(fn.raw, pop[n]).k # "float"

\* C13 as stated: an evaluation of a registered function, the original one
\* for the statistics at the entry of run and after a merge, the active one
\* for the best capture, raises ValueError when the function underneath
\* returns nan or no float.
C13_ValidationEverywhere ==
  [][/\ RunCalled /\ fitness # NoFn /\ Invalid(ori_fitness, population)
          => outcome' = "ValueError"
     /\ pc = "loop" /\ g < ng /\ Invalid(fitness, population)
          => exc' = "ValueError"
     /\ pc = "repro" /\ pc' \in {"loop", "hooks"}
          => ~Invalid(ori_fitness, population')]_vars

\* The reproduction units of the workers of rank below w, and the children
\* they have emitted.
RECURSIVE Units(_)
Units(w) == IF w = 0 THEN 0 ELSE Units(w - 1) + LocalSize(w - 1)

RECURSIVE Emitted(_)
Emitted(w) == IF w = 0 THEN 0 ELSE Emitted(w - 1) + Len(local_indvs[w - 1])

Ranks == 0..(nprocs - 1)

CollaboratorErrors ==
  OperatorErrors \cup {"ValueError", "SetupError", "StepError", "FinalizeError"}

\* The step is the return of merge_seq on this worker.
MergeReturns == pc = "repro" /\ pc' # "repro" /\ exc' \notin OperatorErrors

\* C15 as stated: merge_seq returns on no worker before every worker has
\* done its local reproduction units of the generation; run on an engine
\* with a fitness function terminates, and unless a collaborator raised it
\* has executed exactly ng generations.
C15_RunsNgGenerations ==
  /\ [][MergeReturns => Contributed]_vars
  /\ [][RunEnded /\ fitness # NoFn =>
          \/ outcome' \in CollaboratorErrors
          \/ outcome' = "ok" /\ g' = ng]_vars
  /\ (pc # "idle") ~> (pc = "idle")

\* C15 amended: the same, for a population of at least two individuals.
C15_RunsNgGenerationsOfPairs ==
  /\ [][MergeReturns => Contributed]_vars
  /\ [][RunEnded /\ fitness # NoFn /\ size0' >= 2 =>
          \/ outcome' \in CollaboratorErrors
          \/ outcome' = "ok" /\ g' = ng /\ ng' = ng]_vars
  /\ (pc # "idle") ~> (pc = "idle")

\* run(ng=2) has returned in a group of two workers, two generations done.
C15_Witness ==
  /\ pc = "idle" /\ outcome = "ok" /\ nprocs = 2
  /\ ng = 2 /\ g = 2 /\ size0 = 2

\* C16: the population changes within a generation by the replacement after
\* the merge alone: the best capture and every select call see it as the
\* last completed generation left it, and the register_step hooks see the
\* merged sequence with the retained best at index 0.
C16_FullReplacement ==
  /\ pc \in {"setup", "loop", "repro"} => population = gen_population
  /\ pc = "hooks" =>
       LET indvs == MergeSeq(local_indvs, nprocs) IN
       /\ population[1] = best_indv
       /\ Len(population) = Len(indvs)
       /\ \A n \in 2..Len(indvs) : population[n] = indvs[n]

\* The hooks of the second generation are given a population that is not
\* the one the generation started from.
C16_Witness ==
  /\ pc = "hooks" /\ g = 1
  /\ gen_population = <<2, 2>> /\ population = <<2, 1>>
  /\ local_indvs[0] = <<1, 1>>

\* The active fitness function is fn under one scaling of the kind, then
\* the fitness check.
ScaledOnce(fn, kind) ==
  /\ Len(fn.layers) = 2
  /\ fn.layers[1].kind = kind
  /\ fn.layers[2] = CheckLayer

\* C17: the value of a function under linear_scaling is raw(x) - fmin + ksi
\* for target max and fmax - raw(x) + ksi for target min, fmin and fmax
\* being the engine's statistics when the function is called.
C17_LinearScalingReadsCurrent ==
  pc = "repro" /\ ScaledOnce(fitness, "linear") =>
    \A n \in 1..Len(population) :
      LET raw == RawValue(fitness.raw, population[n]) IN
      active_fits[n] =
        IF fitness.layers[1].target = "max"
        THEN Float(raw.v - fmin.v + Ksi)
        ELSE Float(fmax.v - raw.v + Ksi)

\* In the second generation the individuals of fitness 4.0 are scaled with
\* fmin = 2.0, the minimum of the population the first generation installed.
C17_Witness ==
  /\ pc = "repro" /\ g = 1 /\ ScaledOnce(fitness, "linear")
  /\ fitness.layers[1].target = "max"
  /\ population = <<2, 1>> /\ fmin = Float(32) /\ fmax = Float(64)
  /\ active_fits = <<Float(40), Float(8)>>

\* C18: in generation g a function under dynamic_linear_scaling adds
\* ksi0 * r^(g + 1) to raw(x) - fmin (target max) or fmax - raw(x) (target
\* min) for every individual, the counter being g; the term decreases from
\* one generation to the next.
C18_DynamicExponent ==
  /\ pc = "repro" /\ ScaledOnce(fitness, "dynamic") =>
       /\ current_generation = g
       /\ \A n \in 1..Len(population) :
            LET raw == RawValue(fitness.raw, population[n])
                term == Ksi0 \div (DecayDen ^ (g + 1))
            IN active_fits[n] =
                 IF fitness.layers[1].target = "max"
                 THEN Float(raw.v - fmin.v + term)
                 ELSE Float(fmax.v - raw.v + term)
  /\ \A k \in 1..MaxGen : DynTerm(k + 1) < DynTerm(k)

\* In the second generation the term is 2 * (1/2)^2 = 0.5.
C18_Witness ==
  /\ pc = "repro" /\ g = 1 /\ ScaledOnce(fitness, "dynamic")
  /\ fitness.layers[1].target = "min"
  /\ population = <<1, 2>> /\ fmax = Float(64)
  /\ active_fits = <<Float(40), Float(8)>>

\* C19: every setup and every finalize is invoked while current_generation
\* is -1, every register_step(g, ...) while it is g.
C19_CounterSeenByHooks ==
  \A n \in DOMAIN calls :
    calls[n].cg = IF calls[n].m = "register_step" THEN calls[n].g ELSE NotRunning

\* A run that raised in its second generation has finalized its hook.
C19_Witness ==
  /\ pc = "idle" /\ outcome = "CrossoverError" /\ g = 1
  /\ \E n \in DOMAIN calls : calls[n].m = "finalize" /\ calls[n].cg = NotRunning
  /\ \E n \in DOMAIN calls : calls[n].m = "register_step" /\ calls[n].cg = 0

====
